---- MODULE Spec2Model ----
(***************************************************************************)
(* Model of the BIC exporter (native/bic_exporter/src/lib.rs): the         *)
(* position-based table reconstruction of a PDF and its CSV export.        *)
(*                                                                         *)
(* Coordinates are f32 in the source.  Here they are fixed-point integers  *)
(* counted in units of 1/SPACING_DIVISOR, so that the division of a TJ     *)
(* spacing by SPACING_DIVISOR is exact; f32 rounding is not modelled.      *)
(* Strings are TLA+ strings of ASCII characters; PDF string payloads are   *)
(* sequences of byte values.                                               *)
(***************************************************************************)
EXTENDS Integers, Sequences, FiniteSets, TLC

(***************************************************************************)
(* Constants of lib.rs                                                     *)
(***************************************************************************)
SPACING_DIVISOR == 1000

DEFAULT_LINE_HEIGHT == 12 * SPACING_DIVISOR

SPACE_THRESHOLD == -100

Y_TOLERANCE == 3 * SPACING_DIVISOR

VERTICAL_LINE_TOLERANCE == 1 * SPACING_DIVISOR

LINE_DEDUP_TOLERANCE == 2 * SPACING_DIVISOR

\* REQUIRED_BOUNDARIES as it would be with a smaller requirement
RequiredTooFew == 2 + 2

REQUIRED_BOUNDARIES == 11

\* f32::MAX, the end boundary: larger than every coordinate of the model
F32_MAX == 2147483647

HEADERS ==
  << "Record creation date", "Last Update date", "BIC", "Brch Code",
     "Full legal name", "Registered address", "Operational address",
     "Branch description", "Branch address", "Instit. Type" >>

\* Option<T>: None is the empty sequence, Some(v) the sequence of v alone
None == << >>

Some(v) == << v >>

Unwrap(o) == o[1]

Abs(n) == IF n < 0 THEN -n ELSE n

(***************************************************************************)
(* Strings: the std operations the code uses                               *)
(***************************************************************************)
CharAt(s, i) == SubSeq(s, i, i)

\* char::is_whitespace, on the characters of the model
IsWhitespace(c) == c = " "

IsAsciiDigit(c) == c \in {"0", "1", "2", "3", "4", "5", "6", "7", "8", "9"}

\* the k-th smallest element of a finite set of integers, k in 1..Cardinality
KthSmallest(set, k) ==
  CHOOSE m \in set : Cardinality({ n \in set : n < m }) = k - 1

\* str::trim: from the first to the last character that is not whitespace
Trim(s) ==
  LET keep == { i \in 1..Len(s) : ~IsWhitespace(CharAt(s, i)) }
  IN IF keep = {} THEN ""
     ELSE SubSeq(s, KthSmallest(keep, 1), KthSmallest(keep, Cardinality(keep)))

\* str::split(sep) for a one-character separator: the pieces between
\* successive separators, always at least one piece
Split(s, sep) ==
  LET at == { i \in 1..Len(s) : CharAt(s, i) = sep }
      n == Cardinality(at)
      pos(k) == IF k = 0 THEN 0 ELSE IF k = n + 1 THEN Len(s) + 1
                ELSE KthSmallest(at, k)
  IN [k \in 1..(n + 1) |-> SubSeq(s, pos(k - 1) + 1, pos(k) - 1)]

\* str::split_whitespace: the non-empty maximal runs of non-whitespace
SplitWhitespace(s) == SelectSeq(Split(s, " "), LAMBDA w : w # "")

\* The recursive operators below halve their argument instead of peeling off
\* its head: the result is the same and the evaluation stays shallow.
Half(seq) == (Len(seq) + 1) \div 2

\* [String]::join(sep)
RECURSIVE Join(_, _)
Join(parts, sep) ==
  IF Len(parts) = 0 THEN ""
  ELSE IF Len(parts) = 1 THEN parts[1]
  ELSE Join(SubSeq(parts, 1, Half(parts)), sep) \o sep
       \o Join(SubSeq(parts, Half(parts) + 1, Len(parts)), sep)

UpperCase == "ABCDEFGHIJKLMNOPQRSTUVWXYZ"

LowerCase == "abcdefghijklmnopqrstuvwxyz"

LowerChar(c) ==
  IF \E k \in 1..Len(UpperCase) : CharAt(UpperCase, k) = c
  THEN CharAt(LowerCase, CHOOSE k \in 1..Len(UpperCase) : CharAt(UpperCase, k) = c)
  ELSE c

\* str::to_lowercase
RECURSIVE ToLowercase(_)
ToLowercase(s) ==
  IF Len(s) = 0 THEN ""
  ELSE IF Len(s) = 1 THEN LowerChar(s)
  ELSE ToLowercase(SubSeq(s, 1, Half(s)))
       \o ToLowercase(SubSeq(s, Half(s) + 1, Len(s)))

\* str::contains
Contains(s, sub) ==
  \E i \in 1..(Len(s) - Len(sub) + 1) : SubSeq(s, i, i + Len(sub) - 1) = sub

\* the bytes a character takes in a String, which is UTF-8: one for ASCII,
\* two for U+00E9, which the model writes "~"
Utf8Len(c) == IF c = "~" THEN 2 ELSE 1

\* str::len: the length in bytes
ByteLen(s) == Len(s) + Cardinality({ i \in 1..Len(s) : Utf8Len(CharAt(s, i)) = 2 })

\* chars().all(|c| c.is_ascii_digit())
AllAsciiDigits(s) == \A i \in 1..Len(s) : IsAsciiDigit(CharAt(s, i))

(***************************************************************************)
(* decode_pdf_string                                                       *)
(***************************************************************************)
\* the printable ASCII characters, code points 32..126 (the double quote, the
\* backslash and the backquote, which a TLA+ string does not hold unescaped,
\* are shown as "?", and so is the tilde, which the model writes for U+00E9)
Ascii ==
  " !?#$%&'()*+,-./0123456789:;<=>?@ABCDEFGHIJKLMNOPQRSTUVWXYZ[?]^_?abcdefghijklmnopqrstuvwxyz{|}?"

\* the character of a code point: the printable ASCII ones, and U+00E9 (e
\* with acute accent, written "~" in the strings of the model) for the ones
\* beyond ASCII; the other code points are all shown as "?"
Chr(b) ==
  IF b >= 32 /\ b <= 126 THEN CharAt(Ascii, b - 31)
  ELSE IF b = 233 THEN "~"
  ELSE "?"

\* bytes.iter().map(|&b| b as char)
RECURSIVE DecodeLatin1(_)
DecodeLatin1(bytes) ==
  IF Len(bytes) = 0 THEN ""
  ELSE IF Len(bytes) = 1 THEN Chr(bytes[1])
  ELSE DecodeLatin1(SubSeq(bytes, 1, Half(bytes)))
       \o DecodeLatin1(SubSeq(bytes, Half(bytes) + 1, Len(bytes)))

\* the u16 units: chunks(2) with from_be_bytes, a trailing chunk of one byte
\* filtered out
Units(bytes) ==
  [k \in 1..(Len(bytes) \div 2) |-> bytes[2 * k - 1] * 256 + bytes[2 * k]]

\* String::from_utf16_lossy, on units that are characters of the model
DecodeUtf16BE(bytes) == DecodeLatin1(Units(bytes))

decode_pdf_string(bytes) ==
  IF Len(bytes) >= 2 /\ bytes[1] = 254 /\ bytes[2] = 255
  THEN DecodeUtf16BE(SubSeq(bytes, 3, Len(bytes)))
  ELSE DecodeLatin1(bytes)

(***************************************************************************)
(* extract_text_from_ops                                                   *)
(***************************************************************************)
\* a TJ array item that leaves current_x where it is
AdjustedItemUnmoved(st, item) ==
  IF item.kind = "Text"
  THEN [st EXCEPT !.text = @ \o decode_pdf_string(item.text)]
  ELSE [st EXCEPT !.text = IF item.spacing < SPACE_THRESHOLD THEN @ \o " " ELSE @]

\* one TJ array item applied to (combined_text, current_x)
AdjustedItem(st, item) ==
  IF item.kind = "Text"
  THEN [st EXCEPT !.text = @ \o decode_pdf_string(item.text)]
  ELSE [text |-> IF item.spacing < SPACE_THRESHOLD THEN st.text \o " " ELSE st.text,
        x    |-> st.x - item.spacing]

RECURSIVE AdjustedFold(_, _)
AdjustedFold(st, array) ==
  IF Len(array) = 0 THEN st
  ELSE IF Len(array) = 1 THEN AdjustedItem(st, array[1])
  ELSE LET mid == AdjustedFold(st, SubSeq(array, 1, Half(array))) IN
       \* the test has mid evaluated before the second half is entered
       IF mid = mid
       THEN AdjustedFold(mid, SubSeq(array, Half(array) + 1, Len(array)))
       ELSE mid

\* a decoder whose BeginText forgets the line anchor too
TextOpStepForgettingAnchor(st, op) ==
  CASE op.op = "TextNewline" ->
         [st EXCEPT !.y = @ - DEFAULT_LINE_HEIGHT, !.x = st.tmx]
    [] op.op = "MoveTextPosition" ->
         [st EXCEPT !.x = @ + op.x, !.y = @ + op.y]
    [] op.op = "SetTextMatrix" ->
         [st EXCEPT !.x = op.x, !.y = op.y, !.tmx = op.x]
    [] op.op = "BeginText" ->
         [st EXCEPT !.x = 0, !.y = 0, !.tmx = 0]
    [] op.op = "TextDraw" ->
         LET decoded == decode_pdf_string(op.text) IN
         IF Trim(decoded) # ""
         THEN [st EXCEPT !.elements =
                 Append(@, [text |-> decoded, x |-> st.x, y |-> st.y])]
         ELSE st
    [] op.op = "TextDrawAdjusted" ->
         LET r == AdjustedFold([text |-> "", x |-> st.x], op.array) IN
         IF Trim(r.text) # ""
         THEN [st EXCEPT !.x = r.x,
                         !.elements =
                           Append(@, [text |-> r.text, x |-> st.x, y |-> st.y])]
         ELSE [st EXCEPT !.x = r.x]
    [] OTHER -> st

\* one operator applied to the decoder state
\* [x, y: current_x, current_y; tmx: text_matrix_x; elements]
TextOpStep(st, op) ==
  CASE op.op = "TextNewline" ->
         [st EXCEPT !.y = @ - DEFAULT_LINE_HEIGHT, !.x = st.tmx]
    [] op.op = "MoveTextPosition" ->
         [st EXCEPT !.x = @ + op.x, !.y = @ + op.y]
    [] op.op = "SetTextMatrix" ->
         [st EXCEPT !.x = op.x, !.y = op.y, !.tmx = op.x]
    [] op.op = "BeginText" ->
         [st EXCEPT !.x = 0, !.y = 0]
    [] op.op = "TextDraw" ->
         LET decoded == decode_pdf_string(op.text) IN
         IF Trim(decoded) # ""
         THEN [st EXCEPT !.elements =
                 Append(@, [text |-> decoded, x |-> st.x, y |-> st.y])]
         ELSE st
    [] op.op = "TextDrawAdjusted" ->
         LET r == AdjustedFold([text |-> "", x |-> st.x], op.array) IN
         IF Trim(r.text) # ""
         THEN [st EXCEPT !.x = r.x,
                         !.elements =
                           Append(@, [text |-> r.text, x |-> st.x, y |-> st.y])]
         ELSE [st EXCEPT !.x = r.x]
    [] OTHER -> st

RECURSIVE TextOpsFold(_, _)
TextOpsFold(st, ops) ==
  IF Len(ops) = 0 THEN st
  ELSE IF Len(ops) = 1 THEN TextOpStep(st, ops[1])
  ELSE LET mid == TextOpsFold(st, SubSeq(ops, 1, Half(ops))) IN
       \* the test has mid evaluated before the second half is entered
       IF mid = mid
       THEN TextOpsFold(mid, SubSeq(ops, Half(ops) + 1, Len(ops)))
       ELSE mid

extract_text_from_ops(ops) ==
  TextOpsFold([x |-> 0, y |-> 0, tmx |-> 0, elements |-> << >>], ops).elements

(***************************************************************************)
(* group_into_rows                                                         *)
(***************************************************************************)
\* f32::round of y / tolerance: to the nearest integer, halves away from zero
\* YKey as it would be if the quotient were cut off and not rounded
YKeyTruncating(y, y_tolerance) == y \div y_tolerance

\* (elem.y / y_tolerance).round() as i32: to the nearest integer, a half
\* away from zero (the cast saturates at the ends of i32, which the
\* coordinates of the model stay far from)
YKey(y, y_tolerance) ==
  IF y >= 0 THEN (2 * y + y_tolerance) \div (2 * y_tolerance)
  ELSE 0 - ((2 * (0 - y) + y_tolerance) \div (2 * y_tolerance))

\* StableSort as it would be with a sort that turns items of equal key round
SortTiesReversed(seq, key) ==
  LET rank(i) ==
        Cardinality({ j \in 1..Len(seq) :
                        \/ key[j] < key[i]
                        \/ key[j] = key[i] /\ j > i })
  IN [p \in 1..Len(seq) |-> seq[CHOOSE i \in 1..Len(seq) : rank(i) = p - 1]]

\* slice::sort_by, a stable sort, by ascending key, key[i] being the key of
\* seq[i]: an item comes after the items of smaller key and after the earlier
\* items of equal key
StableSort(seq, key) ==
  LET rank(i) ==
        Cardinality({ j \in 1..Len(seq) :
                        \/ key[j] < key[i]
                        \/ key[j] = key[i] /\ j < i })
  IN [p \in 1..Len(seq) |-> seq[CHOOSE i \in 1..Len(seq) : rank(i) = p - 1]]

\* the keys of rows_map in the iteration order of a BTreeMap (ascending)
AscendingKeys(keys) == [k \in 1..Cardinality(keys) |-> KthSmallest(keys, k)]

group_into_rows(elements, y_tolerance) ==
  IF Len(elements) = 0 THEN << >>
  ELSE
    LET keys == { YKey(elements[i].y, y_tolerance) : i \in 1..Len(elements) }
        \* the entry of a key: its elements in the order they were pushed
        entry(k) == SelectSeq(elements, LAMBDA e : YKey(e.y, y_tolerance) = k)
        cellsOf(k) == [i \in 1..Len(entry(k)) |->
                         [x |-> entry(k)[i].x, text |-> entry(k)[i].text]]
        order == AscendingKeys(keys)
        rows == [i \in 1..Len(order) |->
                   [y     |-> order[i] * y_tolerance,
                    cells |-> StableSort(cellsOf(order[i]),
                                        [j \in 1..Len(entry(order[i])) |-> entry(order[i])[j].x])]]
    \* b.y.total_cmp(&a.y): descending y
    IN StableSort(rows, [i \in 1..Len(rows) |-> 0 - rows[i].y])

(***************************************************************************)
(* extract_column_boundaries_from_ops                                      *)
(***************************************************************************)
\* a detector whose LineTo leaves last_move_x in place
LineOpStepKeepingMove(st, op) ==
  CASE op.op = "MoveTo" -> [st EXCEPT !.last_move_x = Some(op.x)]
    [] op.op = "LineTo" ->
         [st EXCEPT !.vertical_lines =
            IF st.last_move_x # None
               /\ Abs(Unwrap(st.last_move_x) - op.x) < VERTICAL_LINE_TOLERANCE
            THEN Append(@, Unwrap(st.last_move_x))
            ELSE @]
    [] OTHER -> st

\* one operator applied to [last_move_x, vertical_lines]
LineOpStep(st, op) ==
  CASE op.op = "MoveTo" -> [st EXCEPT !.last_move_x = Some(op.x)]
    [] op.op = "LineTo" ->
         [last_move_x    |-> None,
          vertical_lines |->
            IF st.last_move_x # None
               /\ Abs(Unwrap(st.last_move_x) - op.x) < VERTICAL_LINE_TOLERANCE
            THEN Append(st.vertical_lines, Unwrap(st.last_move_x))
            ELSE st.vertical_lines]
    [] OTHER -> st

RECURSIVE LineOpsFold(_, _)
LineOpsFold(st, ops) ==
  IF Len(ops) = 0 THEN st
  ELSE IF Len(ops) = 1 THEN LineOpStep(st, ops[1])
  ELSE LET mid == LineOpsFold(st, SubSeq(ops, 1, Half(ops))) IN
       \* the test has mid evaluated before the second half is entered
       IF mid = mid
       THEN LineOpsFold(mid, SubSeq(ops, Half(ops) + 1, Len(ops)))
       ELSE mid

\* a dedup that removes an element only when it equals the last one kept
DedupStepEqualOnly(kept, v) ==
  IF Len(kept) > 0 /\ v = kept[Len(kept)]
  THEN kept
  ELSE Append(kept, v)

\* Vec::dedup_by: an element is removed when it is within the tolerance of
\* the last element kept
DedupStep(kept, v) ==
  IF Len(kept) > 0 /\ Abs(v - kept[Len(kept)]) < LINE_DEDUP_TOLERANCE
  THEN kept
  ELSE Append(kept, v)

RECURSIVE DedupFrom(_, _)
DedupFrom(kept, rest) ==
  IF Len(rest) = 0 THEN kept
  ELSE IF Len(rest) = 1 THEN DedupStep(kept, rest[1])
  ELSE LET mid == DedupFrom(kept, SubSeq(rest, 1, Half(rest))) IN
       \* the test has mid evaluated before the second half is entered
       IF mid = mid
       THEN DedupFrom(mid, SubSeq(rest, Half(rest) + 1, Len(rest)))
       ELSE mid

extract_column_boundaries_from_ops(ops) ==
  LET scanned == LineOpsFold([last_move_x |-> None, vertical_lines |-> << >>], ops)
      sorted  == StableSort(scanned.vertical_lines, scanned.vertical_lines)
      deduped == DedupFrom(<< >>, sorted)
  IN IF Len(deduped) # 0 THEN Append(deduped, F32_MAX) ELSE deduped

(***************************************************************************)
(* assign_cells_to_columns                                                 *)
(***************************************************************************)
\* one cell pushed into the first column whose interval holds its x
\* AssignCell as it would be if a cell in no interval went to the first
\* column
AssignCellOrFirst(columns, cell, boundaries) ==
  LET hits == { i \in 1..Len(columns) :
                  cell.x >= boundaries[i] /\ cell.x < boundaries[i + 1] }
      i == IF hits = {} THEN 1 ELSE CHOOSE h \in hits : \A g \in hits : h <= g
  IN [columns EXCEPT ![i] =
        IF @ # "" THEN @ \o " " \o cell.text ELSE cell.text]

\* one cell of the row: the first interval that holds its x, if any
AssignCell(columns, cell, boundaries) ==
  LET hits == { i \in 1..Len(columns) :
                  cell.x >= boundaries[i] /\ cell.x < boundaries[i + 1] }
  IN IF hits = {} THEN columns
     ELSE LET i == CHOOSE h \in hits : \A g \in hits : h <= g
          IN [columns EXCEPT ![i] =
                IF @ # "" THEN @ \o " " \o cell.text ELSE cell.text]

RECURSIVE AssignFold(_, _, _)
AssignFold(columns, cells, boundaries) ==
  IF Len(cells) = 0 THEN columns
  ELSE IF Len(cells) = 1 THEN AssignCell(columns, cells[1], boundaries)
  ELSE LET mid == AssignFold(columns, SubSeq(cells, 1, Half(cells)), boundaries) IN
       \* the test has mid evaluated before the second half is entered
       IF mid = mid
       THEN AssignFold(mid, SubSeq(cells, Half(cells) + 1, Len(cells)), boundaries)
       ELSE mid

assign_cells_to_columns(row, boundaries) ==
  LET num_columns == Len(boundaries) - 1
      columns == AssignFold([i \in 1..num_columns |-> ""], row.cells, boundaries)
  IN [i \in 1..num_columns |-> Join(SplitWhitespace(columns[i]), " ")]

(***************************************************************************)
(* is_header_row, is_data_row, merge_continuation_row                      *)
(***************************************************************************)
is_header_row(cells) ==
  LET combined == ToLowercase(Join(cells, " ")) IN
  \/ Contains(combined, "record") /\ Contains(combined, "creation")
  \/ Contains(combined, "last update")
  \/ Contains(combined, "brch code")
  \/ Contains(combined, "bic brch")
  \/ Contains(combined, "full legal name")
  \/ Contains(combined, "instit. type")
  \/ Contains(combined, "inst. type")
  \/ Contains(combined, "iso bic directory")
  \/ Contains(combined, "registration authority")
  \/ Contains(combined, "iso 9362")

\* is_data_row as it would be with the second and third part not looked at
is_data_row_by_year(cells) ==
  IF Len(cells) = 0 \/ cells[1] = "" THEN FALSE
  ELSE
    LET first == Trim(cells[1])
        parts == Split(first, "-")
    IN IF ByteLen(first) >= 10 /\ Len(parts) >= 3
       THEN /\ ByteLen(parts[1]) = 4
            /\ AllAsciiDigits(parts[1])
       ELSE FALSE

\* the len() of a str is its length in bytes
is_data_row(cells) ==
  IF Len(cells) = 0 \/ cells[1] = "" THEN FALSE
  ELSE
    LET first == Trim(cells[1])
        parts == Split(first, "-")
    IN IF ByteLen(first) >= 10 /\ Len(parts) >= 3
       THEN /\ ByteLen(parts[1]) = 4
            /\ AllAsciiDigits(parts[1])
            /\ ByteLen(parts[2]) = 2
            /\ ByteLen(parts[3]) >= 2
       ELSE FALSE

\* merge_continuation_row as it would be with the space pushed whether or
\* not the field of the record is empty
merge_always_spaced(record, continuation) ==
  [i \in 1..Len(record) |->
     IF i <= Len(continuation) /\ continuation[i] # ""
     THEN record[i] \o " " \o continuation[i]
     ELSE record[i]]

merge_continuation_row(record, continuation) ==
  [i \in 1..Len(record) |->
     IF i <= Len(continuation) /\ continuation[i] # ""
     THEN IF record[i] # "" THEN record[i] \o " " \o continuation[i]
          ELSE continuation[i]
     ELSE record[i]]

(***************************************************************************)
(* Input documents                                                         *)
(*                                                                         *)
(* A document is what the pdf crate hands to extract_table_from_file: a    *)
(* sequence of pages, each either unreadable, without contents, with       *)
(* contents whose operations cannot be parsed, or with a sequence of Op.   *)
(***************************************************************************)
\* number of pages of a document, the cover page included
MaxPages == 3

\* Op values of the pdf crate, as the decoder and the detector match them
MoveTo(x, y) == [op |-> "MoveTo", x |-> x, y |-> y]

LineTo(x, y) == [op |-> "LineTo", x |-> x, y |-> y]

BeginText == [op |-> "BeginText"]

TextNewline == [op |-> "TextNewline"]

SetTextMatrix(e, f) == [op |-> "SetTextMatrix", x |-> e, y |-> f]

MoveTextPosition(dx, dy) == [op |-> "MoveTextPosition", x |-> dx, y |-> dy]

TextDraw(text) == [op |-> "TextDraw", text |-> text]

TextDrawAdjusted(array) == [op |-> "TextDrawAdjusted", array |-> array]

AdjText(text) == [kind |-> "Text", text |-> text]

AdjSpacing(spacing) == [kind |-> "Spacing", spacing |-> spacing]

\* an operator neither the decoder nor the detector looks at
Stroke == [op |-> "Stroke"]

\* PdfString payloads: single-byte text, and UTF-16BE text behind a BOM
Ord(c) == CHOOSE b \in (32..126) \cup {233} : Chr(b) = c

Latin1(s) == [i \in 1..Len(s) |-> Ord(CharAt(s, i))]

Utf16BE(s) ==
  << 254, 255 >> \o [i \in 1..(2 * Len(s)) |->
                       IF i % 2 = 1 THEN 0 ELSE Ord(CharAt(s, i \div 2))]

\* the table of the test documents: the i-th vertical rule, and text lines
RuleX(i) == i * 10 * SPACING_DIVISOR

LineY(r) == (70 - 12 * r) * SPACING_DIVISOR

\* n vertical rules RuleX(1) apart, the first at x, each drawn as MoveTo,
\* LineTo, stroke
Rules(from, n) ==
  [i \in 1..(3 * n) |->
     LET x == from + ((i - 1) \div 3) * RuleX(1) IN
     IF i % 3 = 1 THEN MoveTo(x, LineY(5))
     ELSE IF i % 3 = 2 THEN LineTo(x, LineY(0))
     ELSE Stroke]

Rule(x) == Rules(x, 1)

\* a text drawn inside column c (1-based) of the table, on line r
Cell(c, r, text) ==
  << SetTextMatrix(RuleX(c) + 2 * SPACING_DIVISOR, LineY(r)), TextDraw(Latin1(text)) >>

Contents(ops) == [page |-> "ok", contents |-> "some", ops |-> ops]

\* page "A": ten rules; a header line, a data row and a continuation row
\* (UTF-16BE text); the page ends with the record open
PageA ==
  Contents(Rules(RuleX(1), 10)
           \o << BeginText >>
           \o Cell(1, 1, "Record creation date") \o Cell(2, 1, "Last Update date")
           \o Cell(1, 2, "2021-05-22") \o Cell(2, 2, "2024-06-06")
           \o Cell(3, 2, "ABCDEFGH")
           \o << SetTextMatrix(RuleX(6) + 2 * SPACING_DIVISOR, LineY(2)),
                 TextDraw(Latin1("1 Main")),
                 TextNewline,
                 TextDraw(Utf16BE("Street")) >>)

\* page "B": the same ten rules; begins with a continuation row, then a data
\* row whose code is drawn by a TJ array, and a text left of the first rule
PageB ==
  Contents(Rules(RuleX(1), 10)
           \o << BeginText >>
           \o Cell(7, 1, "Suite 5")
           \o Cell(1, 2, "1997-03-01") \o Cell(2, 2, "2020-01-01")
           \o << SetTextMatrix(RuleX(3) + 2 * SPACING_DIVISOR, LineY(2)),
                 TextDrawAdjusted(<< AdjText(Latin1("ZYXW")), AdjSpacing(-50),
                                     AdjText(Latin1("VUTS")) >>),
                 SetTextMatrix(RuleX(5), LineY(2)),
                 TextDrawAdjusted(<< AdjText(Latin1("Bank")), AdjSpacing(-250),
                                     AdjText(Latin1("Ltd")) >>),
                 SetTextMatrix(2 * SPACING_DIVISOR, LineY(4)),
                 TextDraw(Latin1("page 2")) >>)

\* page "few": three rules only, and a data row
PageFew ==
  Contents(Rules(RuleX(1), 3) \o Cell(1, 1, "2021-05-22") \o Cell(3, 1, "FEWLINES"))

\* page "wide": twelve rules, one of them drawn twice a little apart; a data
\* row with a text right of the eleventh rule
PageWide ==
  Contents(Rules(RuleX(1), 12) \o Rule(RuleX(4) + SPACING_DIVISOR)
           \o Cell(1, 1, "2019-12-31") \o Cell(2, 1, "2020-02-02")
           \o Cell(10, 1, "BANK") \o Cell(11, 1, "TYPE"))

\* page "shift": ten rules at other places; a data row, then a row with text
\* in the first two columns and no date
PageShift ==
  Contents(Rules(RuleX(1) + 5 * SPACING_DIVISOR, 10)
           \o Cell(1, 1, "2018-07-07") \o Cell(3, 1, "SHIFTED1")
           \o << MoveTextPosition(0, 0 - DEFAULT_LINE_HEIGHT) >>
           \o Cell(1, 2, "see") \o Cell(2, 2, "note"))

\* page "loose": no rule at all; a header line that starts with a date, a row
\* that passes the date-shape check without being a date, a continuation
\* row, and a header line again
PageLoose ==
  Contents(Cell(1, 1, "2021-05-22") \o Cell(5, 1, "Full legal name")
           \o Cell(1, 2, "2021-ab-cdefg") \o Cell(3, 2, "LOOSEROW")
           \o Cell(9, 3, "PO Box 1")
           \o Cell(4, 4, "Brch Code"))

PageNoContents == [page |-> "ok", contents |-> "none", ops |-> << >>]

PageBadOps == [page |-> "ok", contents |-> "bad", ops |-> << >>]

PageUnreadable == [page |-> "err", contents |-> "none", ops |-> << >>]

PageKinds ==
  << PageA, PageB, PageFew, PageWide, PageShift, PageLoose,
     PageNoContents, PageBadOps, PageUnreadable >>

\* documents are sequences of indices into PageKinds
Documents ==
  UNION { [1..n -> 1..Len(PageKinds)] : n \in 1..MaxPages }

PageOf(d, n) == PageKinds[d[n + 1]]

(***************************************************************************)
(* convert_bic_pdf_to_csv, with extract_table_from_pdf and                 *)
(* extract_table_from_file inlined, and process_page_rows one row a step   *)
(***************************************************************************)
VARIABLES
  source,          \* input: [opens, pages], the PDF at the source path
  dest0,           \* input: the destination file before the call
  dest,            \* the destination file: None, or Some(rows written)
  pc,              \* position in the call
  page_num,        \* extract_table_from_file: index of the page iterator
  all_rows,        \* extract_table_from_file: all_rows
  boundaries,      \* extract_table_from_file: Option<Vec<f32>>
  rows,            \* process_page_rows: rows of the page
  row_idx,         \* process_page_rows: position of the for loop over rows
  records,         \* process_page_rows: records
  current_record,  \* process_page_rows: Option<Vec<String>>
  result,          \* what extract_table_from_pdf returned, None before
  next_row,        \* convert_bic_pdf_to_csv: position of the write loop
  ret,             \* what convert_bic_pdf_to_csv returned, None before
  row_log,         \* history: every row the page loop classified
  page_log,        \* history: every call of process_page_rows
  previous,        \* what an earlier call of extract_table_from_pdf on the
                   \* same source returned, None when there was none
  args,            \* a function called on its own: its arguments
  out,             \* a function called on its own: Some(what it returned)
  loop             \* a function called on its own: Some(where its loop over
                   \* the operations stands), None for a function without

vars ==
  << source, dest0, dest, pc, page_num, all_rows, boundaries, rows, row_idx,
     records, current_record, result, next_row, ret, row_log, page_log,
     previous, args, out, loop >>

\* Ok(v) and Err(e) of Result
Ok(v) == [ok |-> TRUE, value |-> v, err |-> ""]

Err(e) == [ok |-> FALSE, value |-> << >>, err |-> e]

\* Bail as it would be if the error carried the rows collected so far
BailWithRows(e, rows_so_far) == [ok |-> FALSE, value |-> rows_so_far, err |-> e]

\* the ? operator and anyhow::bail! in extract_table_from_file: the function
\* returns the error, and its local all_rows is dropped with it
Bail(e, rows_so_far) == Err(e)

\* the destination before the call: absent, or a file with older content
OldFile == Some(<< << "old" >> >>)

Init ==
  /\ \/ source = [opens |-> FALSE, pages |-> << >>]
     \/ \E d \in Documents : source = [opens |-> TRUE, pages |-> d]
  /\ dest0 \in {None, OldFile}
  /\ dest = dest0
  /\ pc = "open"
  /\ page_num = 0
  /\ all_rows = << >>
  /\ boundaries = None
  /\ rows = << >>
  /\ row_idx = 1
  /\ records = << >>
  /\ current_record = None
  /\ result = None
  /\ next_row = 1
  /\ ret = None
  /\ row_log = << >>
  /\ page_log = << >>
  /\ previous = None
  /\ args = None
  /\ out = None
  /\ loop = None

fn_vars == << args, out, loop >>

extract_vars == << page_num, all_rows, boundaries >>

page_vars == << rows, row_idx, records, current_record >>

io_vars == << source, dest0, dest, next_row, ret, previous, fn_vars >>

\* extract_table_from_file returns r
Return(r) ==
  /\ result' = Some(r)
  /\ pc' = "extracted"

\* FileOptions::cached().open(source) fails
OpenFails ==
  /\ pc = "open"
  /\ ~source.opens
  /\ Return(Err("Failed to open PDF file"))
  /\ UNCHANGED << extract_vars, page_vars, io_vars, row_log, page_log >>

OpenSucceeds ==
  /\ pc = "open"
  /\ source.opens
  /\ pc' = "pages"
  /\ UNCHANGED << extract_vars, page_vars, io_vars, result, row_log, page_log >>

AtPage == pc = "pages" /\ page_num < Len(source.pages)

ThisPage == PageOf(source.pages, page_num)

\* page_result is an error
PageReadFails ==
  /\ AtPage
  /\ ThisPage.page = "err"
  /\ Return(Bail("Failed to get page", all_rows))
  /\ UNCHANGED << extract_vars, page_vars, io_vars, row_log, page_log >>

\* page 0 is the cover page
SkipCoverPage ==
  /\ AtPage
  /\ ThisPage.page = "ok"
  /\ page_num = 0
  /\ page_num' = page_num + 1
  /\ UNCHANGED << all_rows, boundaries, page_vars, io_vars, pc, result,
                  row_log, page_log >>

\* SkipPageWithoutContents as it would be if a page without contents counted
\* as a page without boundaries
SkipPageWithoutContentsFails ==
  /\ AtPage
  /\ ThisPage.page = "ok"
  /\ page_num # 0
  /\ ThisPage.contents = "none"
  /\ IF boundaries = None
     THEN /\ Return(Bail("Failed to detect column boundaries from PDF", all_rows))
          /\ UNCHANGED page_num
     ELSE /\ page_num' = page_num + 1
          /\ UNCHANGED << pc, result >>
  /\ UNCHANGED << all_rows, boundaries, page_vars, io_vars, row_log, page_log >>

\* page.contents is None
SkipPageWithoutContents ==
  /\ AtPage
  /\ ThisPage.page = "ok"
  /\ page_num # 0
  /\ ThisPage.contents = "none"
  /\ page_num' = page_num + 1
  /\ UNCHANGED << all_rows, boundaries, page_vars, io_vars, pc, result,
                  row_log, page_log >>

\* contents.operations(&resolver) is an error
OperationsFail ==
  /\ AtPage
  /\ ThisPage.page = "ok"
  /\ page_num # 0
  /\ ThisPage.contents = "bad"
  /\ Return(Bail("Failed to parse operations", all_rows))
  /\ UNCHANGED << extract_vars, page_vars, io_vars, row_log, page_log >>

\* HasOps as it would be if the cover page were read like the others
HasOpsCoverPageToo ==
  /\ AtPage
  /\ ThisPage.page = "ok"
  /\ ThisPage.contents = "some"

\* the page is read, is not the cover page, and has contents that parse
HasOps ==
  /\ AtPage
  /\ ThisPage.page = "ok"
  /\ page_num # 0
  /\ ThisPage.contents = "some"

\* Truncate as it would be with the truncation forgotten
TruncateNothing(detected, n) == detected

\* detected.truncate(REQUIRED_BOUNDARIES)
Truncate(detected, n) == SubSeq(detected, 1, n)

\* the first lines of process_page_rows: the rows of the page; the early
\* returns on no element and no row leave the for loop nothing to do
EnterPage(ops, b) ==
  /\ rows' = group_into_rows(extract_text_from_ops(ops), Y_TOLERANCE)
  /\ row_idx' = 1
  /\ records' = << >>
  /\ current_record' = None
  /\ page_log' = Append(page_log, [page |-> page_num, boundaries |-> b])
  /\ pc' = "rows"

\* LayoutMismatch as it would be if a page with too few boundaries were
\* passed over and detection left to a later page
LayoutMismatchSkipsPage ==
  /\ HasOps
  /\ boundaries = None
  /\ Len(extract_column_boundaries_from_ops(ThisPage.ops)) < REQUIRED_BOUNDARIES
  /\ page_num' = page_num + 1
  /\ UNCHANGED << all_rows, boundaries, page_vars, io_vars, pc, result,
                  row_log, page_log >>

\* boundaries.is_none() and too few boundaries are detected: bail!
LayoutMismatch ==
  /\ HasOps
  /\ boundaries = None
  /\ Len(extract_column_boundaries_from_ops(ThisPage.ops)) < REQUIRED_BOUNDARIES
  /\ Return(Bail("Failed to detect column boundaries from PDF", all_rows))
  /\ UNCHANGED << extract_vars, page_vars, io_vars, row_log, page_log >>

\* boundaries.is_none() and enough boundaries are detected: they are kept,
\* truncated, and the page is read with them
DetectBoundaries ==
  /\ HasOps
  /\ boundaries = None
  /\ LET detected == extract_column_boundaries_from_ops(ThisPage.ops) IN
       /\ Len(detected) >= REQUIRED_BOUNDARIES
       /\ boundaries' = Some(Truncate(detected, REQUIRED_BOUNDARIES))
       /\ EnterPage(ThisPage.ops, Truncate(detected, REQUIRED_BOUNDARIES))
  /\ UNCHANGED << page_num, all_rows, io_vars, result, row_log >>

\* ReuseBoundaries as it would be if every page with enough vertical lines
\* had its own boundaries detected
ReuseBoundariesRedetecting ==
  /\ HasOps
  /\ boundaries # None
  /\ LET detected == extract_column_boundaries_from_ops(ThisPage.ops)
         b == IF Len(detected) >= REQUIRED_BOUNDARIES
              THEN Truncate(detected, REQUIRED_BOUNDARIES)
              ELSE Unwrap(boundaries)
     IN /\ boundaries' = Some(b)
        /\ EnterPage(ThisPage.ops, b)
  /\ UNCHANGED << page_num, all_rows, io_vars, result, row_log >>

\* boundaries is Some already: the page is read with them
ReuseBoundaries ==
  /\ HasOps
  /\ boundaries # None
  /\ EnterPage(ThisPage.ops, Unwrap(boundaries))
  /\ UNCHANGED << extract_vars, io_vars, result, row_log >>

AtRow == pc = "rows" /\ row_idx <= Len(rows)

\* the boundaries process_page_rows was called with
PageBoundaries == page_log[Len(page_log)].boundaries

\* let cells = assign_cells_to_columns(row, boundaries)
ThisCells == assign_cells_to_columns(rows[row_idx], PageBoundaries)

AllEmpty(cells) == \A i \in 1..Len(cells) : cells[i] = ""

\* the row gone through, whatever was done with it
RowDone(kind) ==
  /\ row_idx' = row_idx + 1
  /\ row_log' = Append(row_log, [page |-> page_num, kind |-> kind,
                                 cells |-> ThisCells])
  /\ UNCHANGED << extract_vars, rows, io_vars, pc, result, page_log >>

\* cells.iter().all(|c| c.is_empty()): continue
SkipEmptyRow ==
  /\ AtRow
  /\ AllEmpty(ThisCells)
  /\ RowDone("empty")
  /\ UNCHANGED << records, current_record >>

\* is_header_row(&cells): continue
SkipHeaderRow ==
  /\ AtRow
  /\ ~AllEmpty(ThisCells)
  /\ is_header_row(ThisCells)
  /\ RowDone("header")
  /\ UNCHANGED << records, current_record >>

\* TakeInto as it would be with the open record forgotten
TakeIntoNothing(recs, cur) == recs

\* current_record.take() pushed onto records, if there is one
TakeInto(recs, cur) == IF cur # None THEN Append(recs, Unwrap(cur)) ELSE recs

\* cells.iter().map(|c| c.trim().to_string()).collect()
NewRecord(cells) == [i \in 1..Len(cells) |-> Trim(cells[i])]

\* DataRow as it would be if the date were looked for before the header
DataRowBeforeHeaderCheck ==
  /\ AtRow
  /\ ~AllEmpty(ThisCells)
  /\ is_data_row(ThisCells)
  /\ records' = TakeInto(records, current_record)
  /\ current_record' = Some(NewRecord(ThisCells))
  /\ RowDone("data")

\* is_data_row(&cells): the open record is saved and a new one started
DataRow ==
  /\ AtRow
  /\ ~AllEmpty(ThisCells)
  /\ ~is_header_row(ThisCells)
  /\ is_data_row(ThisCells)
  /\ records' = TakeInto(records, current_record)
  /\ current_record' = Some(NewRecord(ThisCells))
  /\ RowDone("data")

\* not a data row, and current_record is Some: merged
ContinuationRow ==
  /\ AtRow
  /\ ~AllEmpty(ThisCells)
  /\ ~is_header_row(ThisCells)
  /\ ~is_data_row(ThisCells)
  /\ current_record # None
  /\ current_record' =
       Some(merge_continuation_row(Unwrap(current_record), ThisCells))
  /\ RowDone("continuation")
  /\ UNCHANGED records

\* DropRow as it would be if the row were kept as the start of a record
DropRowOpensRecord ==
  /\ AtRow
  /\ ~AllEmpty(ThisCells)
  /\ ~is_header_row(ThisCells)
  /\ ~is_data_row(ThisCells)
  /\ current_record = None
  /\ current_record' = Some(NewRecord(ThisCells))
  /\ RowDone("dropped")
  /\ UNCHANGED records

\* not a data row, and current_record is None: nothing is done with the row
DropRow ==
  /\ AtRow
  /\ ~AllEmpty(ThisCells)
  /\ ~is_header_row(ThisCells)
  /\ ~is_data_row(ThisCells)
  /\ current_record = None
  /\ RowDone("dropped")
  /\ UNCHANGED << records, current_record >>

\* the end of process_page_rows and all_rows.extend(page_records)
EndPage ==
  /\ pc = "rows"
  /\ row_idx > Len(rows)
  /\ all_rows' = all_rows \o TakeInto(records, current_record)
  /\ page_num' = page_num + 1
  /\ rows' = << >>
  /\ row_idx' = 1
  /\ records' = << >>
  /\ current_record' = None
  /\ pc' = "pages"
  /\ UNCHANGED << boundaries, io_vars, result, row_log, page_log >>

\* the page iterator is exhausted: Ok(all_rows)
ExtractReturns ==
  /\ pc = "pages"
  /\ page_num = Len(source.pages)
  /\ Return(Ok(all_rows))
  /\ UNCHANGED << extract_vars, page_vars, io_vars, row_log, page_log >>

\* ConvertFails as it would be if the output file were created before the
\* extraction
ConvertFailsAfterCreate ==
  /\ pc = "extracted"
  /\ ~Unwrap(result).ok
  /\ dest' = Some(<< >>)
  /\ ret' = Some(Err(Unwrap(result).err))
  /\ pc' = "returned"
  /\ UNCHANGED << extract_vars, page_vars, fn_vars, source, dest0, previous,
                  next_row, result, row_log, page_log >>

\* extract_table_from_pdf(source)? returns the error from convert_bic_pdf_to_csv
ConvertFails ==
  /\ pc = "extracted"
  /\ ~Unwrap(result).ok
  /\ ret' = Some(Err(Unwrap(result).err))
  /\ pc' = "returned"
  /\ UNCHANGED << extract_vars, page_vars, fn_vars, source, dest0, previous,
                  dest, next_row, result, row_log, page_log >>

\* File::create(destination) fails: the destination is as it was
CreateFails ==
  /\ pc = "extracted"
  /\ Unwrap(result).ok
  /\ ret' = Some(Err("Failed to create output CSV file"))
  /\ pc' = "returned"
  /\ UNCHANGED << extract_vars, page_vars, fn_vars, source, dest0, previous,
                  dest, next_row, result, row_log, page_log >>

\* File::create(destination): a new empty file, or the old one truncated
CreateFile ==
  /\ pc = "extracted"
  /\ Unwrap(result).ok
  /\ dest' = Some(<< >>)
  /\ pc' = "headers"
  /\ UNCHANGED << extract_vars, page_vars, fn_vars, source, dest0, previous,
                  next_row, ret, result, row_log, page_log >>

\* WriteHeaders as it would be with the header row left out
WriteHeadersNothing ==
  /\ pc = "headers"
  /\ next_row' = 1
  /\ pc' = "writing"
  /\ UNCHANGED << extract_vars, page_vars, fn_vars, source, dest0, previous,
                  dest, ret, result, row_log, page_log >>

\* writer.write_record(HEADERS)
WriteHeaders ==
  /\ pc = "headers"
  /\ dest' = Some(Append(Unwrap(dest), HEADERS))
  /\ next_row' = 1
  /\ pc' = "writing"
  /\ UNCHANGED << extract_vars, page_vars, fn_vars, source, dest0, previous,
                  ret, result, row_log, page_log >>

\* writer.write_record(&row), one row of the for loop
WriteRow ==
  /\ pc = "writing"
  /\ next_row <= Len(Unwrap(result).value)
  /\ dest' = Some(Append(Unwrap(dest), Unwrap(result).value[next_row]))
  /\ next_row' = next_row + 1
  /\ UNCHANGED << extract_vars, page_vars, fn_vars, source, dest0, previous,
                  ret, result, pc, row_log, page_log >>

\* writer.flush() and Ok(row_count)
ConvertReturns ==
  /\ pc = "writing"
  /\ next_row > Len(Unwrap(result).value)
  /\ ret' = Some(Ok(Len(Unwrap(result).value)))
  /\ pc' = "returned"
  /\ UNCHANGED << extract_vars, page_vars, fn_vars, source, dest0, previous,
                  dest, next_row, result, row_log, page_log >>

Next ==
  \/ OpenFails
  \/ OpenSucceeds
  \/ PageReadFails
  \/ SkipCoverPage
  \/ SkipPageWithoutContents
  \/ OperationsFail
  \/ LayoutMismatch
  \/ DetectBoundaries
  \/ ReuseBoundaries
  \/ SkipEmptyRow
  \/ SkipHeaderRow
  \/ DataRow
  \/ ContinuationRow
  \/ DropRow
  \/ EndPage
  \/ ExtractReturns
  \/ ConvertFails
  \/ CreateFails
  \/ CreateFile
  \/ WriteHeaders
  \/ WriteRow
  \/ ConvertReturns

Spec == Init /\ [][Next]_vars

\* CallAgain as it would be if all_rows outlived the call
CallAgainKeepingRows ==
  /\ pc = "extracted"
  /\ previous = None
  /\ previous' = result
  /\ result' = None
  /\ pc' = "open"
  /\ page_num' = 0
  /\ boundaries' = None
  /\ row_log' = << >>
  /\ page_log' = << >>
  /\ UNCHANGED << all_rows, page_vars, fn_vars, source, dest0, dest, next_row,
                  ret >>

\* extract_table_from_pdf is called once more on the same source: the file
\* is opened anew and all_rows and boundaries are new locals of the call
CallAgain ==
  /\ pc = "extracted"
  /\ previous = None
  /\ previous' = result
  /\ result' = None
  /\ pc' = "open"
  /\ page_num' = 0
  /\ all_rows' = << >>
  /\ boundaries' = None
  /\ row_log' = << >>
  /\ page_log' = << >>
  /\ UNCHANGED << page_vars, fn_vars, source, dest0, dest, next_row, ret >>

NextAgain == Next \/ CallAgain

\* the call, with extract_table_from_pdf called a second time
SpecAgain == Init /\ [][NextAgain]_vars

(***************************************************************************)
(* The functions called on their own, as the unit tests call them          *)
(***************************************************************************)
\* no call of convert_bic_pdf_to_csv is under way
NoCall ==
  /\ source = [opens |-> FALSE, pages |-> << >>]
  /\ dest0 = None
  /\ dest = None
  /\ pc = "returned"
  /\ page_num = 0
  /\ all_rows = << >>
  /\ boundaries = None
  /\ rows = << >>
  /\ row_idx = 1
  /\ records = << >>
  /\ current_record = None
  /\ result = None
  /\ next_row = 1
  /\ ret = None
  /\ row_log = << >>
  /\ page_log = << >>
  /\ previous = None

call_vars ==
  << source, dest0, dest, pc, page_num, all_rows, boundaries, rows, row_idx,
     records, current_record, result, next_row, ret, row_log, page_log,
     previous >>

\* the function returns r
Returns(r) ==
  /\ out = None
  /\ out' = Some(r)
  /\ UNCHANGED << args, loop, call_vars >>

\* sequences of at most n elements of a set
SeqsUpTo(set, n) == UNION { [1..k -> set] : k \in 0..n }

\* longest record of a call of merge_continuation_row on its own
MaxFields == 3

\* cells of records and of continuation rows
RecordCells == {"", "a", "b c"}

ContinuationCells == {"", "x", " y"}

InitMerge ==
  /\ NoCall
  /\ args \in [record : SeqsUpTo(RecordCells, MaxFields),
               continuation : SeqsUpTo(ContinuationCells, MaxFields + 1)]
  /\ out = None
  /\ loop = None

CallMerge == Returns(merge_continuation_row(args.record, args.continuation))

SpecMerge == InitMerge /\ [][CallMerge]_vars

\* most parts between dashes of a first cell given to is_data_row
MaxParts == 4

\* the parts a first cell is made of
Pieces == {"", "2021", "20a1", "202", "05", "~", "22", "cdefg"}

\* first cells: parts joined by dashes, with or without blanks around
FirstCells ==
  { lead \o Join(parts, "-") \o trail :
      parts \in SeqsUpTo(Pieces, MaxParts) \ {<< >>},
      lead \in {"", " "}, trail \in {"", " "} }

InitDataRow ==
  /\ NoCall
  /\ args \in [cells : {<< >>} \cup { << first >> \o rest :
                           first \in FirstCells,
                           rest \in {<< >>, << "2024-06-06" >>} }]
  /\ out = None
  /\ loop = None

CallDataRow == Returns(is_data_row(args.cells))

SpecDataRow == InitDataRow /\ [][CallDataRow]_vars

\* most fragments given to group_into_rows
MaxFragments == 3

\* the fragments: two places across, five heights of which three are within
\* one tolerance of each other and one is half way between two buckets
Fragments ==
  [text : {"First", "Second"},
   x : {10 * SPACING_DIVISOR, 50 * SPACING_DIVISOR},
   y : {99 * SPACING_DIVISOR, 100 * SPACING_DIVISOR, 101 * SPACING_DIVISOR,
        80 * SPACING_DIVISOR, 0 - 4500}]

InitGroup ==
  /\ NoCall
  /\ args \in [elements : SeqsUpTo(Fragments, MaxFragments),
               y_tolerance : {Y_TOLERANCE}]
  /\ out = None
  /\ loop = None

CallGroup == Returns(group_into_rows(args.elements, args.y_tolerance))

SpecGroup == InitGroup /\ [][CallGroup]_vars

\* most cells of a row given to assign_cells_to_columns
MaxCells == 3

\* the cells: left of the first boundary, two places in the first interval,
\* and beyond each later boundary; texts with blanks around and inside
RowCells ==
  [x : {0 - 5 * SPACING_DIVISOR, 10 * SPACING_DIVISOR, 30 * SPACING_DIVISOR,
        60 * SPACING_DIVISOR, 110 * SPACING_DIVISOR},
   text : {"Col1", "a  b", " y "}]

\* rows as group_into_rows makes them: the cells in ascending x
SortedRows ==
  { cells \in SeqsUpTo(RowCells, MaxCells) :
      \A c \in 1..(Len(cells) - 1) : cells[c].x <= cells[c + 1].x }

\* boundaries as extract_table_from_file keeps them: ascending, with the
\* end marker or, after a truncation, without it
BoundarySets ==
  { << 0, 50 * SPACING_DIVISOR, 100 * SPACING_DIVISOR, F32_MAX >>,
    << 0, 100 * SPACING_DIVISOR, F32_MAX >>,
    << 0, 50 * SPACING_DIVISOR, 100 * SPACING_DIVISOR >> }

InitAssign ==
  /\ NoCall
  /\ args \in [row : [y : {100 * SPACING_DIVISOR}, cells : SortedRows],
               boundaries : BoundarySets]
  /\ out = None
  /\ loop = None

CallAssign == Returns(assign_cells_to_columns(args.row, args.boundaries))

SpecAssign == InitAssign /\ [][CallAssign]_vars

\* most operations of a content stream given to extract_text_from_ops
MaxOps == 4

\* the text operators: every kind the decoder looks at and one it does not,
\* texts with and without letters, adjustments on both sides of the word
\* space threshold, and an array without any text
TextOps ==
  { BeginText, TextNewline,
    SetTextMatrix(20 * SPACING_DIVISOR, 700 * SPACING_DIVISOR),
    MoveTextPosition(5 * SPACING_DIVISOR, 0 - 14 * SPACING_DIVISOR),
    TextDraw(Latin1("Hi")), TextDraw(Latin1(" ")),
    TextDrawAdjusted(<< AdjText(Latin1("Ab")), AdjSpacing(0 - 250),
                        AdjText(Latin1("Cd")) >>),
    TextDrawAdjusted(<< AdjText(Latin1("A")), AdjSpacing(0 - 50),
                        AdjText(Latin1("B")), AdjSpacing(120) >>),
    TextDrawAdjusted(<< AdjSpacing(0 - 300) >>),
    Stroke }

\* the decoder before the first operation
TextStart == [x |-> 0, y |-> 0, tmx |-> 0, elements |-> << >>]

InitText ==
  /\ NoCall
  /\ args \in [ops : SeqsUpTo(TextOps, MaxOps)]
  /\ out = None
  /\ loop = Some([at |-> 1, st |-> TextStart])

\* one turn of the loop over the operations
StepText ==
  /\ out = None
  /\ Unwrap(loop).at <= Len(args.ops)
  /\ loop' = Some([at |-> Unwrap(loop).at + 1,
                   st |-> TextOpStep(Unwrap(loop).st, args.ops[Unwrap(loop).at])])
  /\ UNCHANGED << args, out, call_vars >>

\* the loop is over: the fragments are returned
ReturnText ==
  /\ out = None
  /\ Unwrap(loop).at > Len(args.ops)
  /\ out' = Some(Unwrap(loop).st.elements)
  /\ UNCHANGED << args, loop, call_vars >>

NextText == StepText \/ ReturnText

SpecText == InitText /\ [][NextText]_vars

\* most operations of a content stream given to
\* extract_column_boundaries_from_ops
MaxLineOps == 6

\* the path operators: pen positions 1.2 and 0.8 apart, so that the first
\* and the last are each within the dedup tolerance of the middle one and
\* exactly the tolerance apart; line ends within the vertical line
\* tolerance of one or two of them, and exactly the tolerance from another
LineOps ==
  { MoveTo(50 * SPACING_DIVISOR, LineY(5)),
    MoveTo(50 * SPACING_DIVISOR + 1200, LineY(5)),
    MoveTo(52 * SPACING_DIVISOR, LineY(5)),
    LineTo(50 * SPACING_DIVISOR + 200, LineY(0)),
    LineTo(50 * SPACING_DIVISOR + 1900, LineY(0)),
    Stroke }

\* the detector before the first operation
LineStart == [last_move_x |-> None, vertical_lines |-> << >>]

InitLines ==
  /\ NoCall
  /\ args \in [ops : SeqsUpTo(LineOps, MaxLineOps)]
  /\ out = None
  /\ loop = Some([at |-> 1, st |-> LineStart])

\* one turn of the loop over the operations
StepLines ==
  /\ out = None
  /\ Unwrap(loop).at <= Len(args.ops)
  /\ loop' = Some([at |-> Unwrap(loop).at + 1,
                   st |-> LineOpStep(Unwrap(loop).st, args.ops[Unwrap(loop).at])])
  /\ UNCHANGED << args, out, call_vars >>

\* the loop is over: the lines are sorted and deduplicated, the end
\* boundary is added, and the boundaries are returned
ReturnLines ==
  /\ out = None
  /\ Unwrap(loop).at > Len(args.ops)
  /\ out' = Some(extract_column_boundaries_from_ops(args.ops))
  /\ UNCHANGED << args, loop, call_vars >>

NextLines == StepLines \/ ReturnLines

SpecLines == InitLines /\ [][NextLines]_vars

(***************************************************************************)
(* Properties                                                              *)
(***************************************************************************)
Kinds(log) == [i \in 1..Len(log) |-> log[i].kind]

\* the data rows gone through so far, in order
DataRows == SelectSeq(row_log, LAMBDA e : e.kind = "data")

\* the records opened so far, in order: those handed over by finished pages,
\* those closed on the page being read, and the open one
Opened == TakeInto(all_rows \o records, current_record)

StartsWith(s, prefix) ==
  Len(prefix) <= Len(s) /\ SubSeq(s, 1, Len(prefix)) = prefix

Returned == result # None

ReturnedOk == result # None /\ Unwrap(result).ok

\* ^\d{4}-\d{2}-\d{2}$
IsDate(s) ==
  /\ Len(s) = 10
  /\ \A i \in {1, 2, 3, 4, 6, 7, 9, 10} : IsAsciiDigit(CharAt(s, i))
  /\ \A i \in {5, 8} : CharAt(s, i) = "-"

\* C1 (as claimed): the record opened by the last data row of a page stays
\* open across the page boundary, so that once a data row has been seen in
\* the document no later continuation row finds no record to merge into.
C1_ContinuationAcrossPages ==
  \A j \in 1..Len(row_log) :
    row_log[j].kind = "dropped" =>
      ~(\E i \in 1..(j - 1) : row_log[i].kind = "data")

\* C2: every record, open, closed or returned, has exactly 10 fields, and so
\* has every assigned row, whatever the pages, rows and merges.
C2_TenFields ==
  /\ \A i \in 1..Len(Opened) : Len(Opened[i]) = Len(HEADERS)
  /\ \A i \in 1..Len(row_log) : Len(row_log[i].cells) = Len(HEADERS)
  /\ \A i \in 1..Len(page_log) :
       Len(page_log[i].boundaries) - 1 = Len(HEADERS)
  /\ ReturnedOk =>
       \A i \in 1..Len(Unwrap(result).value) :
         Len(Unwrap(result).value[i]) = Len(HEADERS)

\* C2 witness: a returned record that took a continuation row and has an
\* empty column
C2_Witness ==
  /\ ReturnedOk
  /\ \E i \in 1..Len(row_log) : row_log[i].kind = "continuation"
  /\ \E i \in 1..Len(Unwrap(result).value) :
       \E c \in 1..Len(HEADERS) : Unwrap(result).value[i][c] = ""

\* C3: the records opened so far are, one for one and in order, the data
\* rows gone through so far, each record beginning in every column with the
\* trimmed column of its data row; a successful extract returns them all.
C3_RecordsFollowDataRows ==
  /\ Len(Opened) = Len(DataRows)
  /\ \A k \in 1..Len(DataRows) :
       /\ Len(Opened[k]) = Len(DataRows[k].cells)
       /\ \A c \in 1..Len(DataRows[k].cells) :
            StartsWith(Opened[k][c], Trim(DataRows[k].cells[c]))
  /\ ReturnedOk =>
       /\ Unwrap(result).value = Opened
       /\ current_record = None
       /\ records = << >>

\* C3 witness: two records returned, from data rows of two pages, the first
\* one extended by a continuation row
C3_Witness ==
  /\ ReturnedOk
  /\ Len(Unwrap(result).value) >= 2
  /\ \E i, j \in 1..Len(DataRows) : DataRows[i].page # DataRows[j].page
  /\ \E i \in 1..Len(row_log) : row_log[i].kind = "continuation"

\* C4 (as claimed): the first column of every returned record is a
\* YYYY-MM-DD date and so is the second column when it is not empty.
C4_DatesWellFormed ==
  ReturnedOk =>
    \A i \in 1..Len(Unwrap(result).value) :
      LET record == Unwrap(result).value[i] IN
        /\ IsDate(record[1])
        /\ record[2] = "" \/ IsDate(record[2])

\* the pages of the document by page number, the cover page being page 0
PageNumbers == 0..(Len(source.pages) - 1)

PageAt(n) == PageOf(source.pages, n)

\* pages after the cover page that have contents whose operations parse
ContentPages ==
  { n \in PageNumbers : n >= 1 /\ PageAt(n).page = "ok" /\ PageAt(n).contents = "some" }

\* what boundary detection yields on each page of PageKinds
DetectedOf ==
  [k \in 1..Len(PageKinds) |-> extract_column_boundaries_from_ops(PageKinds[k].ops)]

DetectedAt(n) == DetectedOf[source.pages[n + 1]]

\* a full set of boundaries: one more than there are columns
FullSet == Len(HEADERS) + 1

SufficientPages == { n \in ContentPages : Len(DetectedAt(n)) >= FullSet }

LayoutError == "Failed to detect column boundaries from PDF"

LayoutFailed == Returned /\ Unwrap(result).err = LayoutError

\* C5 (as claimed): when every page can be read and some page yields enough
\* vertical lines, the boundaries are those of the first page that does,
\* pages with too few lines before it notwithstanding.
C5_FirstSufficientPageDecides ==
  ( /\ Returned
    /\ \A n \in PageNumbers : PageAt(n).page = "ok" /\ PageAt(n).contents # "bad"
    /\ SufficientPages # {} )
  => boundaries =
       Some(SubSeq(DetectedAt(KthSmallest(SufficientPages, 1)), 1, FullSet))

\* C5 (amended): the boundaries are those of the first page after the cover
\* page that has contents, and that page yields enough vertical lines; when
\* it yields too few the extraction fails there and no page decides them.
C5_FirstContentPageDecides ==
  /\ boundaries # None =>
       /\ ContentPages # {}
       /\ LET first == KthSmallest(ContentPages, 1) IN
            /\ first \in SufficientPages
            /\ page_log[1].page = first
            /\ boundaries = Some(SubSeq(DetectedAt(first), 1, FullSet))
  /\ LayoutFailed =>
       /\ boundaries = None
       /\ ContentPages # {}
       /\ page_num = KthSmallest(ContentPages, 1)
       /\ page_num \notin SufficientPages

\* C5 witness: boundaries taken from a page that comes after a page without
\* contents
C5_Witness ==
  /\ boundaries # None
  /\ page_log[1].page >= 2
  /\ PageAt(1).contents = "none"

\* C6: every page is assigned with the boundaries first resolved, which are
\* still the ones held: they never change, whatever lines later pages have.
C6_BoundariesNeverChange ==
  /\ boundaries = None => page_log = << >>
  /\ boundaries # None =>
       /\ Len(page_log) >= 1
       /\ Unwrap(boundaries) = SubSeq(DetectedAt(page_log[1].page), 1, FullSet)
       /\ \A i \in 1..Len(page_log) : page_log[i].boundaries = Unwrap(boundaries)

\* C6 witness: a later page with enough vertical lines of its own, at other
\* places, read with the boundaries of the first page
C6_Witness ==
  /\ boundaries # None
  /\ \E i \in 2..Len(page_log) :
       /\ page_log[i].page \in SufficientPages
       /\ SubSeq(DetectedAt(page_log[i].page), 1, FullSet) # Unwrap(boundaries)

\* C7 (as claimed): the boundaries used for cell assignment end in the
\* unbounded sentinel.
C7_SentinelLast ==
  boundaries # None =>
    Unwrap(boundaries)[Len(Unwrap(boundaries))] = F32_MAX

\* C8: extract fails with the layout error exactly when it comes, without
\* boundaries, to a page with contents that yields too few of them, and it
\* then returns no record; no page is assigned without a full set.
C8_LayoutMismatch ==
  /\ \A i \in 1..Len(page_log) : Len(page_log[i].boundaries) = FullSet
  /\ \A n \in ContentPages :
       (n < page_num \/ (n = page_num /\ pc = "rows")) =>
         boundaries # None /\ Len(Unwrap(boundaries)) = FullSet
  /\ LayoutFailed =>
       /\ ~Unwrap(result).ok
       /\ Unwrap(result).value = << >>
       /\ boundaries = None
       /\ page_log = << >>
       /\ page_num \in ContentPages
       /\ Len(DetectedAt(page_num)) < FullSet
  /\ ( /\ Returned
       /\ boundaries = None
       /\ page_num \in ContentPages ) => LayoutFailed

\* C8 witness: the layout error on a page that has vertical lines, too few
C8_Witness ==
  /\ LayoutFailed
  /\ Len(DetectedAt(page_num)) > 0
  /\ page_num >= 2

\* a page extract cannot get past
FailingPages ==
  { n \in PageNumbers :
      \/ PageAt(n).page = "err"
      \/ n >= 1 /\ PageAt(n).page = "ok" /\ PageAt(n).contents = "bad"
      \/ /\ n \in ContentPages
         /\ n = KthSmallest(ContentPages, 1)
         /\ n \notin SufficientPages }

\* C9: what extract returns is an error without any record when the
\* document cannot be opened or has a failing page, and else all the records
\* of all the pages, every page with contents having been read, in order.
C9_NoPartialSuccess ==
  Returned =>
    IF ~source.opens \/ FailingPages # {}
    THEN /\ ~Unwrap(result).ok
         /\ Unwrap(result).value = << >>
    ELSE /\ Unwrap(result).ok
         /\ Unwrap(result).value = all_rows
         /\ page_num = Len(source.pages)
         /\ Len(page_log) = Cardinality(ContentPages)
         /\ \A i \in 1..Len(page_log) :
              page_log[i].page = KthSmallest(ContentPages, i)
         /\ Len(all_rows) = Len(DataRows)

\* C9 witness: an error on a page reached after an earlier page has
\* produced records
C9_Witness ==
  /\ Returned
  /\ ~Unwrap(result).ok
  /\ all_rows # << >>

\* C10: when the extraction has failed the destination is as it was before
\* the call, and what the conversion returns is the error, not a count.
C10_DestinationUntouched ==
  (Returned /\ ~Unwrap(result).ok) =>
    /\ dest = dest0
    /\ pc \in {"extracted", "returned"}
    /\ ret # None => ret = Some(Err(Unwrap(result).err))

\* C10 witness: the conversion has returned a layout error, the destination
\* being a file that existed before
C10_Witness ==
  /\ ret # None
  /\ LayoutFailed
  /\ dest0 = OldFile
  /\ dest = OldFile

\* the positions in row_log of the data rows, and of the k-th of them
DataPositions == { j \in 1..Len(row_log) : row_log[j].kind = "data" }

DataPosition(k) ==
  IF k <= Cardinality(DataPositions) THEN KthSmallest(DataPositions, k)
  ELSE Len(row_log) + 1

\* the rows that were merged into the record of the k-th data row
MergedInto(k) ==
  SelectSeq([j \in 1..Len(row_log) |-> [at |-> j, row |-> row_log[j]]],
            LAMBDA e : /\ e.row.kind = "continuation"
                       /\ DataPosition(k) < e.at
                       /\ e.at < DataPosition(k + 1))

\* column c of the record of the k-th data row as the rows gone through
\* make it: the trimmed cell of the data row and the cells of the rows
\* merged into it, the empty ones left out, one space between them
FieldFromLog(k, c) ==
  LET merged == MergedInto(k)
      parts  == << Trim(row_log[DataPosition(k)].cells[c]) >>
                  \o [i \in 1..Len(merged) |-> merged[i].row.cells[c]]
  IN Join(SelectSeq(parts, LAMBDA t : t # ""), " ")

RecordsFromLog ==
  [k \in 1..Cardinality(DataPositions) |->
     [c \in 1..Len(HEADERS) |-> FieldFromLog(k, c)]]

\* the rows of each page of PageKinds as process_page_rows gets them
RowsOfKind ==
  [k \in 1..Len(PageKinds) |->
     group_into_rows(extract_text_from_ops(PageKinds[k].ops), Y_TOLERANCE)]

RowsOf(n) == RowsOfKind[source.pages[n + 1]]

\* C11: the cover page is passed over with nothing done: after it nothing
\* has been collected, and every row classified and every boundary used
\* later comes from a page of index 1 or more (the row just classified is a
\* row of its page), the records being made of those rows only.
C11_CoverPageSkipped ==
  /\ (pc = "pages" /\ page_num = 1) =>
       /\ boundaries = None
       /\ all_rows = << >>
       /\ row_log = << >>
       /\ page_log = << >>
  /\ \A i \in 1..Len(page_log) :
       /\ page_log[i].page >= 1
       /\ page_log[i].boundaries =
            SubSeq(DetectedAt(page_log[1].page), 1, FullSet)
  /\ \A i \in 1..Len(row_log) : row_log[i].page >= 1
  /\ row_log # << >> =>
       LET last == row_log[Len(row_log)] IN
       \E r \in 1..Len(RowsOf(last.page)) :
         last.cells = assign_cells_to_columns(RowsOf(last.page)[r],
                                              Unwrap(boundaries))
  /\ Opened = RecordsFromLog

\* C11 witness: records returned for a document whose cover page has rules
\* of its own and a data row
C11_Witness ==
  /\ ReturnedOk
  /\ Unwrap(result).value # << >>
  /\ PageAt(0) = PageWide
  /\ Unwrap(boundaries) # SubSeq(DetectedAt(0), 1, FullSet)

\* pages after the cover page that are read and have no contents
PagesWithoutContents ==
  { n \in PageNumbers : n >= 1 /\ PageAt(n).page = "ok" /\ PageAt(n).contents = "none" }

\* C12: a page without contents gives no row and no record and is never the
\* page an error is returned on; as long as only such pages have been passed
\* nothing is resolved or collected, and a document with no other page after
\* the cover page gives the empty sequence of records.
C12_PageWithoutContents ==
  /\ \A i \in 1..Len(row_log) : row_log[i].page \notin PagesWithoutContents
  /\ \A i \in 1..Len(page_log) : page_log[i].page \notin PagesWithoutContents
  /\ Len(Opened) = Cardinality(DataPositions)
  /\ (Returned /\ ~Unwrap(result).ok) => page_num \notin PagesWithoutContents
  /\ (pc = "pages" /\ page_num >= 1 /\ 1..(page_num - 1) \subseteq PagesWithoutContents) =>
       /\ boundaries = None
       /\ all_rows = << >>
       /\ result = None
  /\ (Returned /\ source.opens /\ PageAt(0).page = "ok"
        /\ 1..(Len(source.pages) - 1) \subseteq PagesWithoutContents) =>
       Unwrap(result) = Ok(<< >>)
  /\ boundaries # None =>
       1..(page_log[1].page - 1) \subseteq PagesWithoutContents

\* C12 witness: records returned for a document whose first page after the
\* cover page has no contents, the boundaries coming from the page after it
C12_Witness ==
  /\ ReturnedOk
  /\ 1 \in PagesWithoutContents
  /\ page_log # << >>
  /\ page_log[1].page = 2
  /\ Unwrap(result).value # << >>

\* C12 witness of the empty outcome: only pages without contents after the
\* cover page
C12_WitnessEmpty ==
  /\ ReturnedOk
  /\ Len(source.pages) = MaxPages
  /\ 1..(Len(source.pages) - 1) \subseteq PagesWithoutContents

\* C13: while writing, the destination holds the header row and after it
\* the records written so far, in the order extract returned them; when the
\* conversion returns a count the destination holds the header row and all
\* the records, and the count is the number of records.
C13_HeaderThenRecords ==
  /\ pc = "writing" =>
       /\ ReturnedOk
       /\ dest = Some(<< HEADERS >> \o SubSeq(Unwrap(result).value, 1, next_row - 1))
  /\ (ret # None /\ Unwrap(ret).ok) =>
       /\ ReturnedOk
       /\ Len(HEADERS) = 10
       /\ Unwrap(dest)[1] = HEADERS
       /\ SubSeq(Unwrap(dest), 2, Len(Unwrap(dest))) = Unwrap(result).value
       /\ Unwrap(ret).value = Len(Unwrap(result).value)
       /\ Unwrap(ret).value = Len(Unwrap(dest)) - 1
       /\ Unwrap(ret).value = Cardinality(DataPositions)

\* C13 witness: a count of two or more returned, over a destination that
\* existed before, the records written being different ones
C13_Witness ==
  /\ ret # None
  /\ Unwrap(ret).ok
  /\ Unwrap(ret).value >= 2
  /\ dest0 = OldFile
  /\ Unwrap(dest)[2] # Unwrap(dest)[3]

C14_WitnessError ==
  /\ previous # None
  /\ Returned
  /\ ~Unwrap(result).ok
  /\ all_rows # << >>

\* C15: in every column of the record the merge gives the field of the
\* record when the continuation has nothing there, the cell of the
\* continuation when the field is empty, and else the field, one space and
\* the cell; the record keeps its length, columns of the continuation beyond
\* it are ignored, and a continuation of empty cells changes nothing.
C15_MergeColumnWise ==
  (out # None /\ DOMAIN args = {"record", "continuation"}) =>
    LET record == args.record
        continuation == args.continuation
        merged == Unwrap(out)
    IN /\ Len(merged) = Len(record)
       /\ \A i \in 1..Len(record) :
            IF i > Len(continuation) \/ continuation[i] = ""
            THEN merged[i] = record[i]
            ELSE IF record[i] = ""
            THEN merged[i] = continuation[i]
            ELSE merged[i] = record[i] \o " " \o continuation[i]
       /\ AllEmpty(continuation) => merged = record

\* C15 witness: a merge where one field is extended, one empty field is
\* filled, and the continuation has a cell beyond the record
C15_Witness ==
  /\ out # None
  /\ DOMAIN args = {"record", "continuation"}
  /\ Len(args.continuation) > Len(args.record)
  /\ args.continuation[Len(args.continuation)] # ""
  /\ \E i, j \in 1..Len(args.record) :
       /\ args.record[i] # "" /\ args.continuation[i] # ""
       /\ args.record[j] = "" /\ args.continuation[j] # ""
       /\ Unwrap(out)[i] # args.record[i]

\* the row the for loop is at is gone through
RowStep == pc = "rows" /\ row_idx <= Len(rows) /\ row_idx' = row_idx + 1

\* C16: a row that is empty or a header row, date-led or not, is gone
\* through with the open record and the closed ones left as they are, and
\* the records are made of data rows and merged rows only.
C16_EmptyAndHeaderRowsSkipped ==
  /\ [][(RowStep /\ (AllEmpty(ThisCells) \/ is_header_row(ThisCells))) =>
          /\ current_record' = current_record
          /\ records' = records
          /\ all_rows' = all_rows]_vars
  /\ [](/\ \A i \in 1..Len(row_log) :
             (AllEmpty(row_log[i].cells) \/ is_header_row(row_log[i].cells))
               <=> row_log[i].kind \in {"empty", "header"}
        /\ Len(Opened) = Cardinality(DataPositions)
        /\ \A k \in 1..Len(Opened) : \A c \in 1..Len(HEADERS) :
             Opened[k][c] = FieldFromLog(k, c))

\* C16 witness: records returned after a header row with a date in its
\* first column was skipped, and a header row and an empty row were skipped
\* while a record was open
C16_Witness ==
  /\ ReturnedOk
  /\ Unwrap(result).value # << >>
  /\ \E i \in 1..Len(row_log) :
       row_log[i].kind = "header" /\ is_data_row(row_log[i].cells)
  /\ \A kind \in {"header", "empty"} :
       \E i, j \in 1..Len(row_log) :
         /\ i < j
         /\ row_log[i].kind = "data"
         /\ row_log[j].kind = kind
         /\ row_log[i].page = row_log[j].page

\* a row with text that is neither a header row nor a data row
PlainRow(cells) ==
  ~AllEmpty(cells) /\ ~is_header_row(cells) /\ ~is_data_row(cells)

\* C17: such a row gone through while no record is open leaves no record
\* open and the closed ones as they are; every such row without a data row
\* before it on its page went that way, and the records have a field for
\* every data row and text from data rows and merged rows only.
C17_RowWithoutRecordDiscarded ==
  /\ [][(RowStep /\ PlainRow(ThisCells) /\ current_record = None) =>
          /\ current_record' = None
          /\ records' = records
          /\ all_rows' = all_rows]_vars
  /\ [](/\ \A j \in 1..Len(row_log) :
             ( /\ PlainRow(row_log[j].cells)
               /\ ~\E i \in 1..(j - 1) :
                     row_log[i].kind = "data" /\ row_log[i].page = row_log[j].page )
             => row_log[j].kind = "dropped"
        /\ Opened = RecordsFromLog
        /\ \A j \in 1..Len(row_log) : \A k \in 1..Cardinality(DataPositions) :
             row_log[j].kind = "dropped" =>
               \A e \in 1..Len(MergedInto(k)) : MergedInto(k)[e].at # j)

\* C17 witness: records returned for a page that begins with a row of text
\* without a date and has a data row after it
C17_Witness ==
  /\ ReturnedOk
  /\ \E j, i \in 1..Len(row_log) :
       /\ j < i
       /\ row_log[j].kind = "dropped"
       /\ row_log[i].kind = "data"
       /\ row_log[j].page = row_log[i].page
       /\ \A k \in 1..Len(Unwrap(result).value) : \A c \in 1..Len(HEADERS) :
            row_log[j].cells[c] # "" =>
              ~Contains(Unwrap(result).value[k][c], row_log[j].cells[c])

\* the row given to is_data_row, its first cell trimmed, and the parts of it
FirstTrimmed == Trim(args.cells[1])

FirstParts == Split(FirstTrimmed, "-")

\* C18 (as claimed): the row is a data row if and only if it has a first
\* cell that is not empty and, trimmed, has 10 characters or more and three
\* parts or more between dashes, the first of exactly 4 ASCII digits, the
\* second of exactly 2 characters, the third of 2 characters or more.
C18_DataRowByCharacters ==
  (out # None /\ DOMAIN args = {"cells"}) =>
    ( Unwrap(out) <=>
        /\ Len(args.cells) > 0
        /\ args.cells[1] # ""
        /\ Len(FirstTrimmed) >= 10
        /\ Len(FirstParts) >= 3
        /\ Len(FirstParts[1]) = 4
        /\ AllAsciiDigits(FirstParts[1])
        /\ Len(FirstParts[2]) = 2
        /\ Len(FirstParts[3]) >= 2 )

\* C18 (amended): the same with every length counted in bytes of UTF-8.
C18_DataRowByBytes ==
  (out # None /\ DOMAIN args = {"cells"}) =>
    ( Unwrap(out) <=>
        /\ Len(args.cells) > 0
        /\ args.cells[1] # ""
        /\ ByteLen(FirstTrimmed) >= 10
        /\ Len(FirstParts) >= 3
        /\ ByteLen(FirstParts[1]) = 4
        /\ AllAsciiDigits(FirstParts[1])
        /\ ByteLen(FirstParts[2]) = 2
        /\ ByteLen(FirstParts[3]) >= 2 )

\* C18 witness: a row taken as a data row whose first cell has a second part
\* of one character that takes two bytes
C18_Witness ==
  /\ out = Some(TRUE)
  /\ DOMAIN args = {"cells"}
  /\ Len(FirstParts[2]) = 1
  /\ ByteLen(FirstParts[2]) = 2

\* round(y / tolerance): the integer nearest to the quotient, the one
\* farther from zero when two are as near
Bucket(y, tolerance) ==
  CHOOSE k \in {(y \div tolerance) - 1, y \div tolerance, (y \div tolerance) + 1} :
    \/ 2 * Abs(y - k * tolerance) < tolerance
    \/ 2 * Abs(y - k * tolerance) = tolerance /\ Abs(k * tolerance) > Abs(y)

\* how many elements of a sequence satisfy a test given as a set
CountIn(seq, set) == Cardinality({ i \in 1..Len(seq) : seq[i] \in set })

RowHolds(row, e, tolerance) ==
  /\ \E c \in 1..Len(row.cells) : row.cells[c] = [x |-> e.x, text |-> e.text]
  /\ 2 * Abs(row.y - e.y) <= tolerance

\* C20 (as claimed): two fragments less than the tolerance apart in y are
\* in one row.
C20_WithinToleranceSameRow ==
  (out # None /\ DOMAIN args = {"elements", "y_tolerance"}) =>
    \A i, j \in 1..Len(args.elements) :
      Abs(args.elements[i].y - args.elements[j].y) < args.y_tolerance =>
        \E r \in 1..Len(Unwrap(out)) :
          /\ RowHolds(Unwrap(out)[r], args.elements[i], args.y_tolerance)
          /\ RowHolds(Unwrap(out)[r], args.elements[j], args.y_tolerance)

\* the cell a fragment becomes
CellOf(e) == [x |-> e.x, text |-> e.text]

\* C21: the rows of group_into_rows come with y strictly descending, the
\* cells of a row with x not descending, and the cells of a row at one x in
\* the order the fragments of its bucket at that x have in the input.
C21_RowsAndCellsOrdered ==
  (out # None /\ DOMAIN args = {"elements", "y_tolerance"}) =>
    LET grouped == Unwrap(out)
        elements == args.elements
        tolerance == args.y_tolerance
    IN /\ \A r \in 1..(Len(grouped) - 1) : grouped[r].y > grouped[r + 1].y
       /\ \A r \in 1..Len(grouped) :
            LET cells == grouped[r].cells
                ofRow == SelectSeq(elements,
                           LAMBDA e : Bucket(e.y, tolerance) * tolerance = grouped[r].y)
            IN /\ \A c \in 1..(Len(cells) - 1) : cells[c].x <= cells[c + 1].x
               /\ \A v \in { cells[c].x : c \in 1..Len(cells) } :
                    LET at == SelectSeq(ofRow, LAMBDA e : e.x = v) IN
                    SelectSeq(cells, LAMBDA c : c.x = v)
                      = [i \in 1..Len(at) |-> CellOf(at[i])]

\* C21 witness: fragments given lowest first and right to left, two of them
\* at one place of one row with different texts
C21_Witness ==
  /\ out # None
  /\ DOMAIN args = {"elements", "y_tolerance"}
  /\ Len(args.elements) = 3
  /\ Len(Unwrap(out)) = 2
  /\ args.elements[1].y < args.elements[2].y
  /\ \E r \in 1..2 :
       /\ Len(Unwrap(out)[r].cells) = 2
       /\ Unwrap(out)[r].cells[1].x = Unwrap(out)[r].cells[2].x
       /\ Unwrap(out)[r].cells[1].text # Unwrap(out)[r].cells[2].text

\* C21 witness of the cells sorted: a row of two fragments given right to
\* left
C21_WitnessSorted ==
  /\ out # None
  /\ DOMAIN args = {"elements", "y_tolerance"}
  /\ Len(args.elements) = 2
  /\ Len(Unwrap(out)) = 1
  /\ args.elements[1].x > args.elements[2].x

\* a text with the blanks around it removed and every run of blanks inside
\* it made one blank
SingleSpaced(text) == Join(SplitWhitespace(text), " ")

\* the columns whose interval holds x
ColumnsHolding(x, b) == { i \in 1..(Len(b) - 1) : b[i] <= x /\ x < b[i + 1] }

\* C22: a cell is in no more than one interval, and every column is the
\* texts of the cells in its interval, in the order of the row, one space
\* between them; a cell in no interval, left of the first boundary or at or
\* beyond the last, is in no column.
C22_CellInOneColumn ==
  (out # None /\ DOMAIN args = {"row", "boundaries"}) =>
    LET cells == args.row.cells
        b == args.boundaries
        columns == Unwrap(out)
    IN /\ Len(columns) = Len(b) - 1
       /\ \A c \in 1..Len(cells) : Cardinality(ColumnsHolding(cells[c].x, b)) <= 1
       /\ \A i \in 1..Len(columns) :
            LET held == SelectSeq(cells, LAMBDA cell : i \in ColumnsHolding(cell.x, b))
            IN columns[i] = Join([k \in 1..Len(held) |-> SingleSpaced(held[k].text)], " ")

\* C22 witness: a row with a cell left of the first boundary and two cells
\* in one column, the other column empty
C22_Witness ==
  /\ out # None
  /\ DOMAIN args = {"row", "boundaries"}
  /\ Len(args.row.cells) = 3
  /\ args.row.cells[1].x < args.boundaries[1]
  /\ ColumnsHolding(args.row.cells[2].x, args.boundaries) = {1}
  /\ ColumnsHolding(args.row.cells[3].x, args.boundaries) = {1}
  /\ Contains(Unwrap(out)[1], " ")
  /\ Unwrap(out)[2] = ""

\* C22 witness of the missing end marker: a cell at or beyond the last
\* boundary, in no column
C22_WitnessBeyond ==
  /\ out # None
  /\ DOMAIN args = {"row", "boundaries"}
  /\ Len(args.row.cells) = 1
  /\ args.row.cells[1].x >= args.boundaries[Len(args.boundaries)]
  /\ \A i \in 1..Len(Unwrap(out)) : Unwrap(out)[i] = ""

\* where the loop of a function called on its own stands: the state it has
\* reached and the operation it is about to take
Reached == Unwrap(loop).st

OpNow == args.ops[Unwrap(loop).at]

\* the sum of the adjustments of a TJ array, in thousandths of a unit
RECURSIVE SumSpacings(_)
SumSpacings(array) ==
  IF array = << >> THEN 0
  ELSE (IF Head(array).kind = "Spacing" THEN Head(array).spacing ELSE 0)
       + SumSpacings(Tail(array))

\* the text of a TJ array: its strings, and one space for every adjustment
\* below the word space threshold
RECURSIVE CombinedText(_)
CombinedText(array) ==
  IF array = << >> THEN ""
  ELSE (IF Head(array).kind = "Text" THEN decode_pdf_string(Head(array).text)
        ELSE IF Head(array).spacing < SPACE_THRESHOLD THEN " " ELSE "")
       \o CombinedText(Tail(array))

\* C23: a TextDrawAdjusted appends no more than one fragment, at the cursor
\* as it stood before the array, and none when the combined text (the strings
\* of the array, with one space for every adjustment below the word space
\* threshold) is all whitespace; it moves the cursor in x by minus the sum
\* of the adjustments over 1000, fragment or not, and leaves y alone; the
\* move stays: a TextDraw or an operator of no interest leaves the cursor
\* where it is and a TextDraw puts its fragment there, and a
\* MoveTextPosition adds its offsets to it.
C23_AdjustedShiftsCursor ==
  /\ [][(loop # None /\ loop' # loop /\ OpNow.op = "TextDrawAdjusted") =>
         LET st == Reached
             after == Unwrap(loop').st
             text == CombinedText(OpNow.array)
         IN /\ (st.x - after.x) * 1000 = SumSpacings(OpNow.array) * SPACING_DIVISOR
            /\ after.y = st.y
            /\ after.elements =
                 IF Trim(text) = "" THEN st.elements
                 ELSE Append(st.elements, [text |-> text, x |-> st.x, y |-> st.y])]_vars
  /\ [][(loop # None /\ loop' # loop /\ OpNow.op \in {"TextDraw", "Stroke"}) =>
         LET st == Reached
             after == Unwrap(loop').st
         IN /\ after.x = st.x
            /\ after.y = st.y
            /\ \A i \in (Len(st.elements) + 1)..Len(after.elements) :
                 after.elements[i].x = st.x /\ after.elements[i].y = st.y]_vars
  /\ [][(loop # None /\ loop' # loop /\ OpNow.op = "MoveTextPosition") =>
         /\ Unwrap(loop').st.x = Reached.x + OpNow.x
         /\ Unwrap(loop').st.y = Reached.y + OpNow.y]_vars

\* C23 witness: an array with a word space, then a TextDraw: two fragments,
\* the first at the cursor before the array with the space in its text, the
\* second further along by the adjustment
C23_Witness ==
  /\ loop # None
  /\ Unwrap(loop).at = 3
  /\ args.ops[1].op = "TextDrawAdjusted"
  /\ args.ops[2].op = "TextDraw"
  /\ SumSpacings(args.ops[1].array) < 0
  /\ Len(Reached.elements) = 2
  /\ Contains(Reached.elements[1].text, " ")
  /\ Reached.elements[1].x = 0
  /\ Reached.elements[2].x * 1000 =
       (0 - SumSpacings(args.ops[1].array)) * SPACING_DIVISOR

\* C23 witness of the array without text: no fragment, the cursor moved
C23_WitnessNoFragment ==
  /\ loop # None
  /\ Unwrap(loop).at = 2
  /\ args.ops[1].op = "TextDrawAdjusted"
  /\ Reached.elements = << >>
  /\ Reached.x > 0

\* the e of the last SetTextMatrix among the first n operations, 0 when
\* there is none
LastMatrixX(ops, n) ==
  LET set == { i \in 1..n : ops[i].op = "SetTextMatrix" }
  IN IF set = {} THEN 0
     ELSE ops[CHOOSE i \in set : \A j \in set : j <= i].x

\* C24: wherever the decoder stands, a TextNewline puts the cursor's x at
\* the e of the last SetTextMatrix before it (0 when there was none) and
\* takes the line height off its y; only a SetTextMatrix changes the line
\* anchor (to its e): BeginText, which puts the cursor at (0, 0),
\* MoveTextPosition, TextDraw and TextDrawAdjusted leave the anchor as it
\* is, and TextDraw leaves the cursor as it is.
C24_NewlineReturnsToAnchor ==
  /\ [][(loop # None /\ loop' # loop /\ OpNow.op = "TextNewline") =>
         /\ Unwrap(loop').st.x = LastMatrixX(args.ops, Unwrap(loop).at - 1)
         /\ Unwrap(loop').st.y = Reached.y - DEFAULT_LINE_HEIGHT]_vars
  /\ [][(loop # None /\ loop' # loop) =>
         Unwrap(loop').st.tmx =
           IF OpNow.op = "SetTextMatrix" THEN OpNow.x ELSE Reached.tmx]_vars
  /\ [][(loop # None /\ loop' # loop /\ OpNow.op = "BeginText") =>
         Unwrap(loop').st.x = 0 /\ Unwrap(loop').st.y = 0]_vars
  /\ [][(loop # None /\ loop' # loop /\ OpNow.op = "TextDraw") =>
         /\ Unwrap(loop').st.x = Reached.x
         /\ Unwrap(loop').st.y = Reached.y]_vars

\* C24 witness: a SetTextMatrix, a BeginText and a TextNewline: the cursor
\* is back at the matrix' e, one line below the y BeginText gave it
C24_Witness ==
  /\ loop # None
  /\ Unwrap(loop).at = 4
  /\ args.ops[1].op = "SetTextMatrix"
  /\ args.ops[2].op = "BeginText"
  /\ args.ops[3].op = "TextNewline"
  /\ args.ops[1].x # 0
  /\ Reached.x = args.ops[1].x
  /\ Reached.y = 0 - DEFAULT_LINE_HEIGHT

\* C24 witness of the stream without SetTextMatrix: after a move and an
\* array, the TextNewline has the cursor at x = 0
C24_WitnessNoMatrix ==
  /\ loop # None
  /\ Unwrap(loop).at = 4
  /\ args.ops[1].op = "MoveTextPosition"
  /\ args.ops[2].op = "TextDrawAdjusted"
  /\ args.ops[3].op = "TextNewline"
  /\ Reached.x = 0
  /\ Reached.y = args.ops[1].y - DEFAULT_LINE_HEIGHT

\* the positions among the first n operations of those of the given kinds
OpsOfKind(ops, n, kinds) == { i \in 1..n : ops[i].op \in kinds }

Last(set) == CHOOSE i \in set : \A j \in set : j <= i

\* C25 as claimed: a LineTo appends the x of the last MoveTo before it
\* exactly when there is a MoveTo before it in the stream and that x is
\* within the vertical line tolerance of the x of the LineTo, also when
\* another LineTo stands between the two.
C25_EveryLineToCompared ==
  [][(loop # None /\ loop' # loop /\ OpNow.op = "LineTo") =>
       LET moves == OpsOfKind(args.ops, Unwrap(loop).at - 1, {"MoveTo"})
       IN Unwrap(loop').st.vertical_lines =
            IF moves # {}
               /\ Abs(args.ops[Last(moves)].x - OpNow.x) < VERTICAL_LINE_TOLERANCE
            THEN Append(Reached.vertical_lines, args.ops[Last(moves)].x)
            ELSE Reached.vertical_lines]_vars

\* C25: a LineTo appends the x of the last MoveTo before it exactly when no
\* LineTo stands between the two (of the MoveTo and LineTo before it the
\* last is a MoveTo) and that x is within the vertical line tolerance of
\* the x of the LineTo; a LineTo after another LineTo of the same path
\* appends nothing; no other operator changes the candidates.
C25_FirstLineToCompared ==
  /\ [][(loop # None /\ loop' # loop /\ OpNow.op = "LineTo") =>
         LET pen == OpsOfKind(args.ops, Unwrap(loop).at - 1, {"MoveTo", "LineTo"})
         IN Unwrap(loop').st.vertical_lines =
              IF pen # {}
                 /\ args.ops[Last(pen)].op = "MoveTo"
                 /\ Abs(args.ops[Last(pen)].x - OpNow.x) < VERTICAL_LINE_TOLERANCE
              THEN Append(Reached.vertical_lines, args.ops[Last(pen)].x)
              ELSE Reached.vertical_lines]_vars
  /\ [][(loop # None /\ loop' # loop /\ OpNow.op # "LineTo") =>
         Unwrap(loop').st.vertical_lines = Reached.vertical_lines]_vars

\* C25 witness: a MoveTo and two LineTo, both within the tolerance of the
\* MoveTo: one candidate
C25_Witness ==
  /\ loop # None
  /\ Unwrap(loop).at = 4
  /\ args.ops[1].op = "MoveTo"
  /\ args.ops[2].op = "LineTo"
  /\ args.ops[3].op = "LineTo"
  /\ Abs(args.ops[1].x - args.ops[2].x) < VERTICAL_LINE_TOLERANCE
  /\ Abs(args.ops[1].x - args.ops[3].x) < VERTICAL_LINE_TOLERANCE
  /\ Reached.vertical_lines = << args.ops[1].x >>

\* C25 witness of the operator in between: MoveTo, stroke, LineTo: the
\* candidate is recorded
C25_WitnessAcrossOther ==
  /\ loop # None
  /\ Unwrap(loop).at = 4
  /\ args.ops[1].op = "MoveTo"
  /\ args.ops[2].op = "Stroke"
  /\ args.ops[3].op = "LineTo"
  /\ Reached.vertical_lines = << args.ops[1].x >>

\* the boundaries returned but for the end boundary
FiniteBoundaries == SubSeq(Unwrap(out), 1, Len(Unwrap(out)) - 1)

\* C26: whatever lines the stream draws, the boundaries returned but for
\* the end boundary are candidates, strictly ascending, each at least the
\* dedup tolerance above the one before, also when the candidates form a
\* chain in which each is within the tolerance of the next; every candidate
\* is within the tolerance of one of them; with the end boundary last, the
\* intervals between neighbours are non-empty and no two of them overlap;
\* without candidates nothing is returned.
C26_BoundariesApart ==
  (out # None /\ loop # None) =>
    LET b == Unwrap(out)
        lines == Reached.vertical_lines
        finite == FiniteBoundaries
    IN /\ (b = << >>) <=> (lines = << >>)
       /\ b # << >> => b[Len(b)] = F32_MAX
       /\ \A i \in 1..Len(finite) : \E c \in 1..Len(lines) : lines[c] = finite[i]
       /\ \A i \in 1..(Len(finite) - 1) :
            /\ finite[i] < finite[i + 1]
            /\ finite[i + 1] - finite[i] >= LINE_DEDUP_TOLERANCE
       /\ \A c \in 1..Len(lines) : \E i \in 1..Len(finite) :
            Abs(lines[c] - finite[i]) < LINE_DEDUP_TOLERANCE
       /\ \A i \in 1..(Len(b) - 1) : b[i] < b[i + 1]
       /\ \A i \in 1..(Len(b) - 1) : \A j \in (i + 1)..(Len(b) - 1) :
            b[i + 1] <= b[j]

\* C26 witness: three lines, the middle one within the tolerance of both
\* others, which are the tolerance apart: the outer two are kept
C26_Witness ==
  /\ out # None
  /\ loop # None
  /\ Len(Reached.vertical_lines) = 3
  /\ \E a, m, z \in 1..3 :
       LET l == Reached.vertical_lines
       IN /\ l[a] < l[m] /\ l[m] < l[z]
          /\ l[m] - l[a] < LINE_DEDUP_TOLERANCE
          /\ l[z] - l[m] < LINE_DEDUP_TOLERANCE
          /\ l[z] - l[a] = LINE_DEDUP_TOLERANCE
          /\ Unwrap(out) = << l[a], l[z], F32_MAX >>

\* C26 witness of the lines drawn right to left: sorted before the dedup
C26_WitnessUnsorted ==
  /\ out # None
  /\ loop # None
  /\ Len(Reached.vertical_lines) = 2
  /\ Reached.vertical_lines[1] > Reached.vertical_lines[2]
  /\ Len(Unwrap(out)) = 2
  /\ Unwrap(out)[1] = Reached.vertical_lines[2]

====
